---- MODULE Spec2Model ----
(***************************************************************************)
(* Model of Projects/ToDoIt/Application/User.py: the User class, its       *)
(* password hasher, its Users-table operations and its reset tokens.       *)
(*                                                                         *)
(* Strings are sequences of one-character strings.  None is modelled by    *)
(* NoId (for a UserID) and NoName (for a username); a raised exception by  *)
(* the outcome "raise".                                                    *)
(***************************************************************************)
EXTENDS Integers, Sequences, FiniteSets, TLC

\* ------------------------------------------------------------------ bounds
MaxConns == 2   \* connections that may stay open before the model stops leaking
MaxTime  == 3   \* last clock value (whole seconds)

\* ------------------------------------------------------------- input sets
Usernames == {"alice", "bob"}
Passwords == {<<"p">>, <<"q">>}
Salts     == {<<"a">>, <<"b">>}
Emails    == {"a@x", "b@x"}
Secrets   == {"k1", "k2"}
ExpiresIn == {1, 2}
Procs     == {1, 2}

NoId   == 0        \* None where a UserID is expected (sqlite rowids start at 1)
NoName == "None"   \* None where a username is expected
NoPw   == <<>>     \* no password argument
NoRow  == <<>>     \* fetchone() found no row / nothing read yet

Ids == 1..Cardinality(Usernames)

VARIABLES
    Users,      \* the Users relation: sequence of rows, UserID = position
    openConns,  \* connections opened and not closed
    now,        \* time.time(), whole seconds
    token,      \* the reset token in flight and what it was issued from
    ret,        \* the last call made and its outcome
    calls,      \* reset_password calls in progress (SpecRace)
    commits,    \* the calls whose UPDATE committed, in commit order (SpecRace)
    lastSet     \* history: the password last stored for each username

vars == <<Users, openConns, now, token, ret, calls, commits, lastSet>>

\* --------------------------------------------------------- Password Hasher
RECURSIVE Join(_)
Join(s) == IF s = <<>> THEN "" ELSE Head(s) \o Join(Tail(s))

\* hashlib.sha256(bytes).hexdigest(): 64 hex characters, modelled as one
\* symbol that names its input (SHA-256 taken as collision-free); it never
\* contains ':'.
Sha256Hex(bytes) == << "sha256(" \o Join(bytes) \o ")" >>

\* faulty variant: the salt is neither hashed nor stored
HashPassword_Unsalted(password, salt) ==
    Sha256Hex(password) \o <<":">> \o <<"0">>

\* __hash_password with the salt uuid4().hex drew
HashPassword(password, salt) ==
    Sha256Hex(salt \o password) \o <<":">> \o salt

\* str.split(sep): the list of the pieces between the separators
RECURSIVE Split(_, _)
Split(s, sep) ==
    IF s = <<>> THEN << <<>> >>
    ELSE LET rest == Split(Tail(s), sep)
         IN  IF Head(s) = sep
             THEN << <<>> >> \o rest
             ELSE << <<Head(s)>> \o Head(rest) >> \o Tail(rest)

\* faulty variant: the digests are not compared
CheckPassword_AnyPassword(hashed_password, user_password) ==
    LET parts == Split(hashed_password, ":")
    IN  IF Len(parts) # 2 THEN "raise" ELSE "True"

\* __check_password: "True"/"False", or "raise" when the unpacking of the
\* split fails (ValueError)
CheckPassword(hashed_password, user_password) ==
    LET parts == Split(hashed_password, ":")
    IN  IF Len(parts) # 2 THEN "raise"
        ELSE IF parts[1] = Sha256Hex(parts[2] \o user_password)
             THEN "True" ELSE "False"

\* ------------------------------------------------------------ Users table
\* A row of Users; its UserID is its position (INTEGER PRIMARY KEY, rows are
\* never deleted).
Row(username, password, email) ==
    [Username |-> username, Password |-> password, Email |-> email]

\* cursor.fetchone() of SELECT ... WHERE Username=?: index of the first
\* matching row, 0 when there is none
RowOfUsername(tbl, username) ==
    IF \E i \in 1..Len(tbl) : tbl[i].Username = username
    THEN CHOOSE i \in 1..Len(tbl) :
            /\ tbl[i].Username = username
            /\ \A j \in 1..(i-1) : tbl[j].Username # username
    ELSE 0

RowOfEmail(tbl, email) ==
    IF \E i \in 1..Len(tbl) : tbl[i].Email = email
    THEN CHOOSE i \in 1..Len(tbl) :
            /\ tbl[i].Email = email
            /\ \A j \in 1..(i-1) : tbl[j].Email # email
    ELSE 0

\* the UNIQUE constraint of the Users relation: Username
IntegrityError(tbl, username, email) ==
    \E i \in 1..Len(tbl) : tbl[i].Username = username

\* faulty variant: UPDATE without its WHERE clause
UpdatePassword_AllRows(tbl, username, password) ==
    [i \in 1..Len(tbl) |-> [tbl[i] EXCEPT !.Password = password]]

\* faulty variant: the UPDATE is never committed
UpdatePassword_NotCommitted(tbl, username, password) == tbl

\* UPDATE Users SET Password=? WHERE Username=?
UpdatePassword(tbl, username, password) ==
    [i \in 1..Len(tbl) |->
        IF tbl[i].Username = username
        THEN [tbl[i] EXCEPT !.Password = password]
        ELSE tbl[i]]

\* sql.connect / connection.close
Connect(n) == n + 1
Close(n) == n - 1


\* ------------------------------------------------------------ Reset tokens
\* HMAC-SHA256 of the signing input under key, taken as unforgeable: the
\* signature names the key and the message it was made from.
HmacSha256(key, msg) == [key |-> key, msg |-> msg]

\* jwt.encode(payload, key, algorithm='HS256').decode('utf-8'): the compact
\* form header.payload.signature (3 segments)
JwtEncode(payload, key) ==
    [segments |-> 3, payload |-> payload, sig |-> HmacSha256(key, payload)]

NoPayload == [reset_password |-> NoId, exp |-> 0]
NoToken   == [segments |-> 0, payload |-> NoPayload,
              sig |-> HmacSha256("", NoPayload)]
\* a string that is not in the compact form
Garbage   == [segments |-> 1, payload |-> NoPayload,
              sig |-> HmacSha256("", NoPayload)]

\* jwt.decode(token, key, algorithms=['HS256']) at time clock: "ok" when the
\* payload is returned, else the exception raised.  The library this code
\* runs with (jwt.encode returns bytes: PyJWT 1.x) rejects the exp claim
\* only when exp < now, both in whole seconds.
JwtDecode(tok, key, clock) ==
    IF tok.segments # 3 THEN "DecodeError"
    ELSE IF tok.sig # HmacSha256(key, tok.payload) THEN "InvalidSignatureError"
    ELSE IF tok.payload.exp < clock THEN "ExpiredSignatureError"
    ELSE "ok"

\* body of verify_reset_password_token: the id, or NoId for None
VerifyResult(tok, key, clock) ==
    IF JwtDecode(tok, key, clock) = "ok"
    THEN tok.payload.reset_password
    ELSE NoId

\* the token in flight with what it was issued from
NoIssue == [issued |-> FALSE, tok |-> NoToken, key |-> "", id |-> NoId,
            iat |-> 0, ttl |-> 0]

\* tokens a caller can present: the issued one, a string that is no token,
\* and the issued one with its payload edited (another id, a later expiry)
Tampered(t) ==
    { [t EXCEPT !.payload.reset_password = i] : i \in Ids \ {t.payload.reset_password} }
    \cup { [t EXCEPT !.payload.exp = t.payload.exp + 1] }

Presentable ==
    {Garbage} \cup (IF token.issued THEN {token.tok} \cup Tampered(token.tok)
                    ELSE {})

\* ------------------------------------------------------- last call record
\* op: the method called, on a handle User(username) made for the call;
\* self_id: the handle's id field after the call; pw, email, qid, key, tok:
\* the arguments; out: "True", "False", "None", "value" or "raise";
\* val / name: the id / username returned when out = "value".
Call(op, username, self_id, pw, email, qid, key, tok, out, val, name) ==
    [op |-> op, username |-> username, self_id |-> self_id, pw |-> pw,
     email |-> email, qid |-> qid, key |-> key, tok |-> tok,
     out |-> out, val |-> val, name |-> name]

NoCall == Call("none", NoName, NoId, NoPw, "", NoId, "", NoToken, "None", NoId, NoName)

\* a reset_password call in progress (SpecRace): pc is "idle", "selected"
\* (row fetched, UPDATE not yet executed), or "returned"; old_password is
\* the fetched hash and old_plain (history) the password it was made from
IdleCall == [pc |-> "idle", username |-> NoName, new_password |-> NoPw,
             salt |-> NoPw, old_password |-> NoRow, old_plain |-> NoPw,
             out |-> "None"]

CanConnect == openConns < MaxConns

Init ==
    /\ Users = <<>>
    /\ openConns = 0
    /\ now = 0
    /\ token = NoIssue
    /\ ret = NoCall
    /\ calls = [c \in Procs |-> IdleCall]
    /\ commits = <<>>
    /\ lastSet = [u \in Usernames |-> NoPw]

\* ------------------------------------------------------------- operations
\* faulty variant: INSERT OR REPLACE, an existing row is overwritten
InsertNewUser_Replace(username, password, email, salt) ==
    /\ CanConnect
    /\ LET hashed == HashPassword(password, salt)
           i      == RowOfUsername(Users, username)
       IN  /\ Users' = IF i # 0
                       THEN [Users EXCEPT ![i] = Row(username, hashed, email)]
                       ELSE Append(Users, Row(username, hashed, email))
           /\ lastSet' = [lastSet EXCEPT ![username] = password]
           /\ openConns' = Close(Connect(openConns))
           /\ ret' = Call("insert_new_user", username, NoId, password, email,
                          NoId, "", NoToken, "True", NoId, NoName)
    /\ UNCHANGED <<now, token, calls, commits>>

\* User(username).insert_new_user(password, email); salt is what uuid4 drew
InsertNewUser(username, password, email, salt) ==
    /\ CanConnect
    /\ LET hashed == HashPassword(password, salt)
           dup    == IntegrityError(Users, username, email)
       IN  /\ Users' = IF dup THEN Users
                       ELSE Append(Users, Row(username, hashed, email))
           /\ lastSet' = IF dup THEN lastSet
                         ELSE [lastSet EXCEPT ![username] = password]
           /\ openConns' = Close(Connect(openConns))
           /\ ret' = Call("insert_new_user", username, NoId, password, email,
                          NoId, "", NoToken,
                          IF dup THEN "False" ELSE "True", NoId, NoName)
    /\ UNCHANGED <<now, token, calls, commits>>

\* faulty variant: an absent row is answered with False
LoginOutcome_Graceful(tbl, username, password) ==
    LET i == RowOfUsername(tbl, username)
    IN  IF i = 0 THEN "False"
        ELSE IF username # tbl[i].Username THEN "False"
        ELSE CheckPassword(tbl[i].Password, password)

\* outcome of login_user on table tbl
LoginOutcome(tbl, username, password) ==
    LET i == RowOfUsername(tbl, username)
    IN  IF i = 0 THEN "raise"                  \* credentials[0] on None
        ELSE IF username # tbl[i].Username THEN "False"
        ELSE CheckPassword(tbl[i].Password, password)

\* User(username).login_user(password)
LoginUser(username, password) ==
    /\ CanConnect
    /\ openConns' = Close(Connect(openConns))
    /\ ret' = Call("login_user", username, NoId, password, "", NoId, "",
                   NoToken, LoginOutcome(Users, username, password),
                   NoId, NoName)
    /\ UNCHANGED <<Users, now, token, calls, commits, lastSet>>

\* User(username).find_id()
FindId(username) ==
    /\ CanConnect
    /\ openConns' = Close(Connect(openConns))
    /\ LET i == RowOfUsername(Users, username)
       IN  ret' = IF i = 0
                  THEN Call("find_id", username, NoId, NoPw, "", NoId, "",
                            NoToken, "raise", NoId, NoName)  \* row[0] on None
                  ELSE Call("find_id", username, i, NoPw, "", NoId, "",
                            NoToken, "None", NoId, NoName)
    /\ UNCHANGED <<Users, now, token, calls, commits, lastSet>>

\* faulty variant: the new password is not compared with the old one
ResetOutcome_NoCheck(old_password, new_password) ==
    IF old_password = NoRow THEN "raise" ELSE "True"

\* outcome of reset_password given the fetched Password column (NoRow when
\* fetchone() returned None)
ResetOutcome(old_password, new_password) ==
    IF old_password = NoRow THEN "raise"       \* row[0] on None
    ELSE LET same == CheckPassword(old_password, new_password)
         IN  IF same = "raise" THEN "raise"
             ELSE IF same = "True" THEN "False"
             ELSE "True"

FetchPassword(tbl, username) ==
    LET i == RowOfUsername(tbl, username)
    IN  IF i = 0 THEN NoRow ELSE tbl[i].Password

\* User(username).reset_password(new_password), run without interruption
ResetPassword(username, new_password, salt) ==
    /\ CanConnect
    /\ LET out == ResetOutcome(FetchPassword(Users, username), new_password)
       IN  /\ Users' = IF out = "True"
                       THEN UpdatePassword(Users, username,
                                           HashPassword(new_password, salt))
                       ELSE Users
           /\ lastSet' = IF out = "True"
                         THEN [lastSet EXCEPT ![username] = new_password]
                         ELSE lastSet
           \* connection.close() is reached only after the UPDATE
           /\ openConns' = IF out = "True" THEN Close(Connect(openConns))
                           ELSE Connect(openConns)
           /\ ret' = Call("reset_password", username, NoId, new_password, "",
                          NoId, "", NoToken, out, NoId, NoName)
    /\ UNCHANGED <<now, token, calls, commits>>


\* User(username).get_reset_password_token(secret_key, id, expires_in)
GetResetPasswordToken(username, secret_key, id, expires_in) ==
    /\ LET t == JwtEncode([reset_password |-> id, exp |-> now + expires_in],
                          secret_key)
       IN  /\ token' = [issued |-> TRUE, tok |-> t, key |-> secret_key,
                        id |-> id, iat |-> now, ttl |-> expires_in]
           /\ ret' = Call("get_reset_password_token", username, id, NoPw, "",
                          id, secret_key, t, "value", NoId, NoName)
    /\ UNCHANGED <<Users, openConns, now, calls, commits, lastSet>>

\* User.verify_reset_password_token(tok, secret_key)
VerifyResetPasswordToken(tok, secret_key) ==
    /\ LET id == VerifyResult(tok, secret_key, now)
       IN  ret' = Call("verify_reset_password_token", NoName, NoId, NoPw, "",
                       NoId, secret_key, tok,
                       IF id = NoId THEN "None" ELSE "value", id, NoName)
    /\ UNCHANGED <<Users, openConns, now, token, calls, commits, lastSet>>

\* User.find_username_with_email(database, email)
FindUsernameWithEmail(email) ==
    /\ CanConnect
    /\ openConns' = Close(Connect(openConns))
    /\ LET i == RowOfEmail(Users, email)
       IN  ret' = Call("find_username_with_email", NoName, NoId, NoPw, email,
                       NoId, "", NoToken,
                       IF i = 0 THEN "None" ELSE "value", NoId,
                       IF i = 0 THEN NoName ELSE Users[i].Username)
    /\ UNCHANGED <<Users, now, token, calls, commits, lastSet>>

\* User.find_username_with_id(database, id)
FindUsernameWithId(id) ==
    /\ CanConnect
    /\ openConns' = Close(Connect(openConns))
    /\ LET found == id \in 1..Len(Users)
       IN  ret' = Call("find_username_with_id", NoName, NoId, NoPw, "", id,
                       "", NoToken,
                       IF found THEN "value" ELSE "None", NoId,
                       IF found THEN Users[id].Username ELSE NoName)
    /\ UNCHANGED <<Users, now, token, calls, commits, lastSet>>

\* User.find_id_with_username(database, username)
FindIdWithUsername(username) ==
    /\ CanConnect
    /\ openConns' = Close(Connect(openConns))
    /\ LET i == RowOfUsername(Users, username)
       IN  ret' = Call("find_id_with_username", username, NoId, NoPw, "",
                       NoId, "", NoToken,
                       IF i = 0 THEN "None" ELSE "value", i, NoName)
    /\ UNCHANGED <<Users, now, token, calls, commits, lastSet>>

\* time.time() advances by a second
Tick ==
    /\ now < MaxTime
    /\ now' = now + 1
    /\ UNCHANGED <<Users, openConns, token, ret, calls, commits, lastSet>>

\* The account operations, at one instant: time does not pass, so one secret
\* and one expiry stand for all (SpecToken varies them and lets time pass).
Next ==
    \/ \E u \in Usernames, p \in Passwords, e \in Emails, s \in Salts :
          InsertNewUser(u, p, e, s)
    \/ \E u \in Usernames, p \in Passwords : LoginUser(u, p)
    \/ \E u \in Usernames : FindId(u)
    \/ \E u \in Usernames, p \in Passwords, s \in Salts : ResetPassword(u, p, s)
    \/ \E u \in Usernames, i \in Ids :
          GetResetPasswordToken(u, "k1", i, 1)
    \/ \E t \in Presentable, k \in Secrets : VerifyResetPasswordToken(t, k)
    \/ \E e \in Emails : FindUsernameWithEmail(e)
    \/ \E i \in Ids : FindUsernameWithId(i)
    \/ \E u \in Usernames : FindIdWithUsername(u)

Spec == Init /\ [][Next]_vars

\* ------------------------------------------------ token life over time
\* The reset flow: a token is issued, time passes and the account's password
\* may be reset before the token is presented.
RegisteredUsers ==
    { << Row("alice", HashPassword(p, s), "a@x") >> : p \in Passwords, s \in Salts }

StoredPassword(tbl, pws) ==
    CHOOSE p \in pws : CheckPassword(tbl[1].Password, p) = "True"

InitToken ==
    /\ Users \in RegisteredUsers
    /\ openConns = 0
    /\ now = 0
    /\ token = NoIssue
    /\ ret = NoCall
    /\ calls = [c \in Procs |-> IdleCall]
    /\ commits = <<>>
    /\ lastSet = [u \in Usernames |->
                    IF u = "alice" THEN StoredPassword(Users, Passwords)
                    ELSE NoPw]

NextToken ==
    \/ \E u \in Usernames, k \in Secrets, i \in Ids, x \in ExpiresIn :
          GetResetPasswordToken(u, k, i, x)
    \/ \E t \in Presentable, k \in Secrets : VerifyResetPasswordToken(t, k)
    \/ \E p \in Passwords, s \in Salts : ResetPassword("alice", p, s)
    \/ Tick

SpecToken == InitToken /\ [][NextToken]_vars

\* ------------------------------------------- concurrent reset_password
\* reset_password run by several callers at once, each on its own
\* connection.  A call is split where another connection's statement can
\* come in between: after the SELECT is fetched and before the UPDATE is
\* committed.
RacePasswords == Passwords \cup {<<"r">>}

InitRace == InitToken

\* connect, SELECT Password ..., fetchone(), row[0]
ResetSelect(c, username, new_password) ==
    /\ calls[c].pc = "idle"
    /\ CanConnect
    /\ openConns' = Connect(openConns)
    /\ LET old == FetchPassword(Users, username)
       IN  calls' = [calls EXCEPT ![c] =
                [pc |-> IF old = NoRow THEN "returned" ELSE "selected",
                 username |-> username, new_password |-> new_password,
                 salt |-> NoPw, old_password |-> old,
                 old_plain |-> lastSet[username],  \* history
                 out |-> IF old = NoRow THEN "raise" ELSE "None"]]
    /\ UNCHANGED <<Users, now, token, ret, commits, lastSet>>

\* __check_password on the fetched hash, then __hash_password, UPDATE,
\* commit, close
ResetUpdate(c, salt) ==
    /\ calls[c].pc = "selected"
    /\ LET username == calls[c].username
           new_password == calls[c].new_password
           out == ResetOutcome(calls[c].old_password, new_password)
       IN  /\ Users' = IF out = "True"
                       THEN UpdatePassword(Users, username,
                                           HashPassword(new_password, salt))
                       ELSE Users
           /\ lastSet' = IF out = "True"
                         THEN [lastSet EXCEPT ![username] = new_password]
                         ELSE lastSet
           /\ commits' = IF out = "True" THEN Append(commits, c) ELSE commits
           /\ openConns' = IF out = "True" THEN Close(openConns)
                           ELSE openConns
           /\ calls' = [calls EXCEPT ![c].pc = "returned", ![c].out = out,
                                     ![c].salt = salt]
    /\ UNCHANGED <<now, token, ret>>

NextRace ==
    \/ \E c \in Procs, u \in Usernames, p \in RacePasswords : ResetSelect(c, u, p)
    \/ \E c \in Procs, s \in Salts : ResetUpdate(c, s)

SpecRace == InitRace /\ [][NextRace]_vars

TypeOK ==
    /\ openConns \in 0..MaxConns
    /\ now \in 0..MaxTime
    /\ Len(Users) <= Cardinality(Usernames)


\* ================================================================= claims
HasAccount(tbl, username) == RowOfUsername(tbl, username) # 0

\* C1: reset_password with the account's current password returns False and
\* leaves the store unchanged; with a different password it returns True,
\* and login_user then accepts the new password and refuses the old one.
C1_ResetPassword ==
    [][ (ret'.op = "reset_password" /\ HasAccount(Users, ret'.username)) =>
        LET u == ret'.username
            new == ret'.pw
            old == lastSet[u]
        IN  IF new = old
            THEN ret'.out = "False" /\ Users' = Users
            ELSE /\ ret'.out = "True"
                 /\ LoginOutcome(Users', u, new) = "True"
                 /\ LoginOutcome(Users', u, old) = "False" ]_vars

C1_Witness ==
    /\ ret.op = "reset_password"
    /\ ret.out = "True"
    /\ Len(Users) = 2

\* C2: every operation that returns has closed the connection it opened, so
\* the number of open connections is the same after the call as before it.
C2_ConnectionReleased ==
    [][ (ret'.op # "none" /\ ret'.out # "raise") =>
        openConns' = openConns ]_vars

\* C3: insert_new_user for a username that has an account returns False and
\* changes no row; for a new username it returns True and appends exactly
\* one row, holding that username, that email and a hash of that password.
C3_InsertNewUser ==
    [][ ret'.op = "insert_new_user" =>
        IF HasAccount(Users, ret'.username)
        THEN ret'.out = "False" /\ Users' = Users
        ELSE /\ ret'.out = "True"
             /\ Len(Users') = Len(Users) + 1
             /\ SubSeq(Users', 1, Len(Users)) = Users
             /\ Users'[Len(Users')].Username = ret'.username
             /\ Users'[Len(Users')].Email = ret'.email
             /\ CheckPassword(Users'[Len(Users')].Password, ret'.pw) = "True"
      ]_vars

C3_Witness ==
    /\ ret.op = "insert_new_user"
    /\ ret.out = "False"
    /\ ret.email # Users[RowOfUsername(Users, ret.username)].Email
    /\ ret.pw # lastSet[ret.username]

\* C4: for a username with an account, login_user returns True exactly for
\* the password last set for it and False for any other, and login_user
\* changes no row.
C4_LoginUser ==
    /\ [](  (ret.op = "login_user" /\ HasAccount(Users, ret.username)) =>
            ret.out = (IF ret.pw = lastSet[ret.username]
                       THEN "True" ELSE "False") )
    /\ [][ ret'.op = "login_user" => Users' = Users ]_vars

C4_Witness ==
    /\ ret.op = "login_user"
    /\ ret.out = "False"
    /\ \E i \in 1..Len(Users) :
          /\ Users[i].Username = ret.username
          /\ \E s \in Salts : Users[i].Password = HashPassword(lastSet[ret.username], s)
    /\ \E u \in Usernames : u # ret.username /\ lastSet[u] = ret.pw

\* C5: verify_reset_password_token returns the id the token was issued for
\* exactly when the presented token is the issued one, the secret is the one
\* it was issued with and the time is before issue time + expires_in;
\* otherwise it returns None.
C5_VerifyResetPasswordToken ==
    [][ (ret'.op = "verify_reset_password_token" /\ now' = now) =>
        IF /\ token.issued
           /\ ret'.tok = token.tok
           /\ ret'.key = token.key
           /\ now < token.iat + token.ttl
        THEN ret'.out = "value" /\ ret'.val = token.id
        ELSE ret'.out = "None" ]_vars

\* C6: a hash verifies against the password it was made from, whatever the
\* salt; hashes of one password under two salts differ and both verify; no
\* hash verifies against another password.  The same holds of every stored
\* hash and the password last set.
HashedPasswords == Passwords \cup {<<>>, <<":">>, <<"p", "q">>}

C6_HashCheck ==
    /\ \A p \in HashedPasswords, s1 \in Salts, s2 \in Salts :
          /\ CheckPassword(HashPassword(p, s1), p) = "True"
          /\ s1 # s2 => HashPassword(p, s1) # HashPassword(p, s2)
          /\ \A q \in HashedPasswords \ {p} :
                CheckPassword(HashPassword(p, s1), q) = "False"
    /\ \A i \in 1..Len(Users) : \A q \in HashedPasswords :
          CheckPassword(Users[i].Password, q) =
             (IF q = lastSet[Users[i].Username] THEN "True" ELSE "False")

C6_Witness ==
    /\ Len(Users) = 2
    /\ lastSet[Users[1].Username] = lastSet[Users[2].Username]
    /\ Users[1].Password # Users[2].Password
    /\ ret.op = "login_user"
    /\ ret.out = "True"

Raced(c, d) ==
    /\ c # d
    /\ calls[c].pc = "returned" /\ calls[d].pc = "returned"
    /\ calls[c].username = calls[d].username
    /\ calls[c].old_password # NoRow
    /\ calls[c].old_password = calls[d].old_password
    /\ calls[c].new_password # calls[c].old_plain
    /\ calls[d].new_password # calls[d].old_plain

LastCommit == commits[Len(commits)]

C9_NoOpResetRejected ==
    [][ \A c \in Procs :
          (calls[c].pc = "selected" /\ calls'[c].pc = "returned"
             /\ calls'[c].out = "True") =>
          calls[c].new_password # lastSet[calls[c].username] ]_vars

\* C10: rows are never removed, a row's id, username and email never change,
\* a row's password changes only in reset_password on a handle bound to that
\* row's username, and login_user, find_id, the static lookups and the token
\* operations change no row.
ReadOnlyOps ==
    {"login_user", "find_id", "find_username_with_email",
     "find_username_with_id", "find_id_with_username",
     "get_reset_password_token", "verify_reset_password_token"}

C10_Frame ==
    [][ /\ Len(Users') >= Len(Users)
        /\ \A i \in 1..Len(Users) :
              /\ Users'[i].Username = Users[i].Username
              /\ Users'[i].Email = Users[i].Email
              /\ Users'[i].Password # Users[i].Password =>
                    /\ ret'.op = "reset_password"
                    /\ ret'.username = Users[i].Username
        /\ ret'.op \in ReadOnlyOps => Users' = Users ]_vars

C10_Witness ==
    /\ Len(Users) = 2
    /\ ret.op = "reset_password"
    /\ ret.out = "True"
    /\ ret.username = Users[1].Username
    /\ lastSet[Users[1].Username] # lastSet[Users[2].Username]

====
